---- MODULE Spec2Model ----
(***************************************************************************)
(* The stored-session loader of the authenticating proxy                   *)
(* (pkg/middleware/stored_session.go): concurrent requests for one session *)
(* key run loadSession against one shared session store, its per-session   *)
(* lock and the provider callbacks.  One action is one step of a request   *)
(* between two suspension points (a store call, a provider call).          *)
(***************************************************************************)
EXTENDS Integers, FiniteSets, Sequences, TLC

\* Bounds of the model.
NumReqs == 2
MaxTime == 2
\* Longest Email and longest User of the sessions encoded.
\* Longest refresh period of the loaders whose due test is checked.
MaxPeriod == 3
MaxEmail == 2
MaxUser == 1

\* retryLoadingValidSession(req, 10)
RetryBudget == 10

Reqs == 1..NumReqs
Times == 0..MaxTime
\* Access tokens: 1 is the token of the session first stored, every
\* successful RefreshSession issues the next one.
Tokens == 1..(NumReqs + 1)

\* A nil *SessionState.
Nil == [nil |-> TRUE]

\* The zero time.Time.
ZeroTime == 0

\* The session already placed in a request scope by an earlier handler.
Preloaded == [AccessToken |-> 0, CreatedAt |-> ZeroTime, ExpiresOn |-> ZeroTime]

NoCalls ==
    [Load |-> 0, LoadWithLock |-> 0, ReleaseLock |-> 0, Save |-> 0, Clear |-> 0,
     RefreshSession |-> 0, IsRefreshSessionNeeded |-> 0, ValidateSessionState |-> 0]

VARIABLES
    now,            \* the clock read by time.Now()
    refreshPeriod,  \* storedSessionLoader.refreshPeriod
    stored,         \* the session the store holds for the key, or Nil
    lockHolder,     \* the request holding the per-session lock, 0 when free
    leaseExpired,   \* a lease has run out while its holder had not released it
    needed,         \* tokens for which the provider reports refresh needed
    valid,          \* tokens the provider's ValidateSessionState accepts
    issued,         \* the last access token the provider issued
    pc,             \* position of each request
    session,        \* the session variable of the function a request is in
    err,            \* the error getValidatedSession returns, "nil" for none
    lockErr,        \* the error LoadWithLock returned, "none" before the call
    relocked,       \* the session LoadWithLock returned
    releaseErr,     \* the error ReleaseLock returned, "none" before the call
    clearErr,       \* the error store.Clear returned, "none" before the call
    attempts,       \* loop counter i of retryLoadingValidSession
    polledStale,    \* every Load of the retry loop so far was due and needed
    loaded,         \* what store.Load returned to getValidatedSession
    loadedDue,      \* whether that session was then due for a refresh
    loadedExpired,  \* whether that session was then past its ExpiresOn
    scope,          \* scope.Session of each request
    scope0,         \* scope.Session when the request arrived
    calls,          \* per request, the number of calls of each collaborator
    nextCalls,      \* per request, the number of calls of next.ServeHTTP
    given,          \* the SessionState handed to EncodeSessionState
    cipher,         \* the *cookie.Cipher of both calls, NoCipher for nil
    encoded,        \* the string EncodeSessionState returned
    encodeErr,      \* the error EncodeSessionState returned
    decoded,        \* the SessionState DecodeSessionState returned
    decodeErr,      \* the error DecodeSessionState returned
    cpc             \* position of the encode and decode run

env == <<now, refreshPeriod, needed, valid, issued>>
store == <<stored, lockHolder, leaseExpired>>
atLoad == <<loaded, loadedDue, loadedExpired, scope0>>
atLock == <<lockErr, relocked, releaseErr>>
poll == <<attempts, polledStale>>
locals == <<pc, session, err, atLock, clearErr, poll, atLoad, scope, calls,
            nextCalls>>
codec == <<given, cipher, encoded, encodeErr, decoded, decodeErr, cpc>>
vars == <<env, store, locals, codec>>

----
\* SessionState and the loader's pure helpers.

\* SessionState.Age(): now - CreatedAt, zero when CreatedAt is unset.
Age(s) == IF s.CreatedAt = ZeroTime THEN 0 ELSE now - s.CreatedAt

\* SessionState.IsExpired()
IsExpired(s) == s.ExpiresOn # ZeroTime /\ s.ExpiresOn < now

\* Variant of isRefreshPeriodOver: no test that a period is configured.
isRefreshPeriodOverNoPeriodTest(s) == Age(s) >= refreshPeriod

\* Variant of isRefreshPeriodOver: the age has to exceed the period.
isRefreshPeriodOverStrict(s) == refreshPeriod > 0 /\ Age(s) > refreshPeriod

\* storedSessionLoader.isRefreshPeriodOver
isRefreshPeriodOver(s) == refreshPeriod > 0 /\ Age(s) >= refreshPeriod

\* The provider callbacks, as the provider answers for the session's token.
IsRefreshSessionNeeded(s) == s.AccessToken \in needed

ValidateSessionState(s) == s.AccessToken \in valid

Called(r, ops) ==
    calls' = [calls EXCEPT ![r] =
                [op \in DOMAIN @ |-> IF op \in ops THEN @[op] + 1 ELSE @[op]]]

Goto(r, p) == pc' = [pc EXCEPT ![r] = p]

\* The end of loadSession.  A request that moves to "install" puts the
\* session into its scope and calls the next handler (lines 89-90); one that
\* moves to "pass" calls the next handler, its scope untouched (lines 73-74).
Continue(r, to, s) ==
    IF to = "install"
    THEN /\ scope' = [scope EXCEPT ![r] = s]
         /\ nextCalls' = [nextCalls EXCEPT ![r] = @ + 1]
         /\ Goto(r, "done")
    ELSE IF to = "pass"
    THEN /\ nextCalls' = [nextCalls EXCEPT ![r] = @ + 1]
         /\ Goto(r, "done")
         /\ UNCHANGED scope
    ELSE /\ Goto(r, to)
         /\ UNCHANGED <<scope, nextCalls>>

----
\* The session store and its lock, as the loader sees them.  A store call
\* either fails for a backend reason or acts on the one stored session.

\* SessionStore.Load: (session, err)
LoadOutcomes == {<<stored, "nil">>, <<Nil, "store error">>}

\* SessionStore.LoadWithLock: (session, err, lock holder afterwards).  The
\* lock is obtained only when no other request holds an unexpired lease.
LoadWithLockOutcomes(r) ==
    {<<Nil, "store error", lockHolder>>}
    \cup (IF lockHolder = 0
          THEN {<<stored, "nil", r>>}
          ELSE {<<Nil, "ErrNotLockable", lockHolder>>})

\* Variant of ReleaseLockOutcome: the lease is ended whoever holds it.
ReleaseLockOutcomeAnyCaller(r) == 0

\* SessionStore.ReleaseLock: ends the caller's own lease; on a lease the
\* caller does not hold it fails (not locked) and changes nothing.
ReleaseLockOutcome(r) == IF lockHolder = r THEN 0 ELSE lockHolder

\* SessionStore.ReleaseLock: the error it returns (ErrNotLocked).
ReleaseLockError(r) == IF lockHolder = r THEN "nil" ELSE "ErrNotLocked"

\* SessionStore.Save: the stored session afterwards.
SaveOutcomes(s) == {<<s, "nil">>, <<stored, "store error">>}

\* SessionStore.Clear: the stored session afterwards.
ClearOutcomes == {<<Nil, "nil">>, <<stored, "store error">>}

\* RefreshSession(ctx, session): the provider either fails or issues the
\* next access token, and may restart the session's age.
RefreshOutcomes(s) ==
    {<<s, "provider error">>}
    \cup (IF issued + 1 \in Tokens
          THEN {<<[AccessToken |-> issued + 1, CreatedAt |-> c, ExpiresOn |-> x], "nil">> :
                   c \in {s.CreatedAt, now}, x \in {s.ExpiresOn}}
          ELSE {})

----
\* The loader's decisions, each returning the position the request moves to.

\* Variant of loadSessionEntry: the scope's session is not looked at.
loadSessionEntryAlwaysLoads(sc) == "getValidatedSession"

\* loadSession, lines 71-77
loadSessionEntry(sc) == IF sc # Nil THEN "pass" ELSE "getValidatedSession"

\* Variant of ensureSessionIsValid: a due session is refreshed at once,
\* without the locked reload.
ensureSessionIsValidUnlocked(s) ==
    IF ~isRefreshPeriodOver(s) THEN "install"
    ELSE IF IsRefreshSessionNeeded(s) THEN "RefreshSession"
    ELSE "validateSession"

\* Variant of ensureSessionIsValid: every due session goes to the refresh,
\* the provider is not asked whether one is needed.
ensureSessionIsValidAlwaysRefreshes(s) ==
    IF ~isRefreshPeriodOver(s) THEN "install" ELSE "getRefreshedSession"

\* ensureSessionIsValid, lines 110-120
ensureSessionIsValid(s) ==
    IF ~isRefreshPeriodOver(s) THEN "install"
    ELSE IF IsRefreshSessionNeeded(s) THEN "getRefreshedSession"
    ELSE "validateSession"

\* Variant of getValidatedSession: the error of Load is dropped.
getValidatedSessionDropsError(s, e) ==
    IF e # "nil" \/ s = Nil THEN "install" ELSE ensureSessionIsValid(s)

\* getValidatedSession, lines 97-106
getValidatedSession(s, e) ==
    IF e # "nil" THEN "Clear"
    ELSE IF s = Nil THEN "install"
    ELSE ensureSessionIsValid(s)

\* Variant of validateSession: the expiry of the session is not tested.
validateSessionIgnoresExpiry(s) ==
    IF ~ValidateSessionState(s) THEN "session is invalid" ELSE "nil"

\* validateSession: the error it returns
validateSession(s) ==
    IF IsExpired(s) THEN "session is expired"
    ELSE IF ~ValidateSessionState(s) THEN "session is invalid"
    ELSE "nil"

\* Variant of getRefreshedSession: no second IsRefreshSessionNeeded once
\* the lock is held.
getRefreshedSessionNoRecheck(s, e) ==
    IF e = "ErrNotLockable" THEN "retry"
    ELSE IF e # "nil" THEN "ReleaseLock"
    ELSE IF s = Nil THEN "ReleaseLock"
    ELSE "RefreshSession"

\* Variant of getRefreshedSession: ReleaseLock is deferred only after the
\* error checks, so a store error returns without it.
getRefreshedSessionLateDefer(s, e) ==
    IF e = "ErrNotLockable" THEN "retry"
    ELSE IF e # "nil" THEN "Clear"
    ELSE IF s = Nil THEN "ReleaseLock"
    ELSE IF IsRefreshSessionNeeded(s) THEN "RefreshSession"
    ELSE "ReleaseLock"

\* Variant of getRefreshedSession: once the lock is held the age of the
\* reloaded session is tested again in place of the provider's answer.
getRefreshedSessionRechecksAge(s, e) ==
    IF e = "ErrNotLockable" THEN "retry"
    ELSE IF e # "nil" THEN "ReleaseLock"
    ELSE IF s = Nil THEN "ReleaseLock"
    ELSE IF isRefreshPeriodOver(s) THEN "RefreshSession"
    ELSE "ReleaseLock"

\* Variant of getRefreshedSession: the not-lockable condition is returned
\* like any other error of LoadWithLock.
getRefreshedSessionContentionIsError(s, e) ==
    IF e # "nil" THEN "ReleaseLock"
    ELSE IF s = Nil THEN "ReleaseLock"
    ELSE IF IsRefreshSessionNeeded(s) THEN "RefreshSession"
    ELSE "ReleaseLock"

\* Variant of getRefreshedSession: every error of LoadWithLock starts the
\* poll.
getRefreshedSessionRetriesAnyError(s, e) ==
    IF e # "nil" THEN "retry"
    ELSE IF s = Nil THEN "ReleaseLock"
    ELSE IF IsRefreshSessionNeeded(s) THEN "RefreshSession"
    ELSE "ReleaseLock"

\* getRefreshedSession, lines 131-149, on what LoadWithLock returned
getRefreshedSession(s, e) ==
    IF e = "ErrNotLockable" THEN "retry"
    ELSE IF e # "nil" THEN "ReleaseLock"
    ELSE IF s = Nil THEN "ReleaseLock"
    ELSE IF IsRefreshSessionNeeded(s) THEN "RefreshSession"
    ELSE "ReleaseLock"

\* Variant of afterRefreshSessionWithProvider: the provider's error is not
\* looked at and the session is saved.
afterRefreshSessionWithProviderSavesAnyway(e) == "Save"

\* Variant of afterRefreshSessionWithProvider: refreshSession returns
\* without the Save.
afterRefreshSessionWithProviderSkipsSave(e) == "ReleaseLock"

\* refreshSession, lines 183-193: after the provider's RefreshSession
\* returned e, go on to store.Save or return the error
afterRefreshSessionWithProvider(e) ==
    IF e # "nil" THEN "ReleaseLock" ELSE "Save"

\* Variant of afterRefreshSession: the session is returned with the error.
afterRefreshSessionKeepsSession(s, e) == s

\* getRefreshedSession, lines 143-147: the session it returns after
\* refreshSession returned e
afterRefreshSession(s, e) == IF e # "nil" THEN Nil ELSE s

\* Variant of retryIteration: whatever Load returned is returned.
retryIterationReturnsFirstLoad(s, e) == "return"

\* retryLoadingValidSession, one iteration i of the loop on what Load
\* returned: "sleep" to go round again, "return" to leave with (s, e)
retryIteration(s, e) ==
    IF e # "nil" THEN "return"
    ELSE IF s = Nil THEN "return"
    ELSE IF ~isRefreshPeriodOver(s) THEN "return"
    ELSE IF ~IsRefreshSessionNeeded(s) THEN "return"
    ELSE "sleep"

\* Variant of retryLoopContinues: i <= attempts.
retryLoopContinuesOffByOne(i) == i <= RetryBudget

\* the loop condition i < attempts
retryLoopContinues(i) == i < RetryBudget

\* loadSession, line 78: after getValidatedSession returned
afterGetValidatedSession(e) == IF e # "nil" THEN "Clear" ELSE "install"

\* Variant of afterClear: a failed Clear ends the request.
afterClearAborts(e) == IF e # "nil" THEN "done" ELSE "install"

\* loadSession, lines 82-89: after store.Clear returned
afterClear(e) == "install"

----
\* providers.SessionState and its encoding.  A string is a sequence of
\* characters: "a" a letter, "@" the at sign, "x" a byte that is not valid
\* UTF-8; "?" is the replacement character U+FFFD and "E" marks a ciphertext.

Chars == {"a", "@", "x"}

RECURSIVE Strings(_)
\* The strings of at most n characters.
Strings(n) ==
    IF n = 0 THEN {<<>>}
    ELSE LET shorter == Strings(n - 1)
         IN  shorter \cup {Append(t, c) : t \in shorter, c \in Chars}

StringFields == {"AccessToken", "IDToken", "RefreshToken", "Email", "User"}
Fields == StringFields \cup {"ExpiresOn"}

\* var ss SessionState: the zero value
ZeroSession ==
    [f \in Fields |-> IF f = "ExpiresOn" THEN ZeroTime ELSE <<>>]

\* The *cookie.Cipher argument: nil, a cipher, a cipher whose Encrypt fails.
NoCipher == "nil"
Ciphers == {NoCipher, "cipher", "failing cipher"}

\* A ciphertext is base64 text: every byte of the plaintext, valid UTF-8
\* or not, becomes a letter of the base64 alphabet.
Base64 == [c \in Chars |-> IF c = "a" THEN "A" ELSE IF c = "@" THEN "B" ELSE "X"]

\* cookie.Cipher.Encrypt: (ciphertext, err)
Encrypt(c, t) ==
    IF c = "failing cipher" THEN <<(<<>>), "encrypt error">>
    ELSE <<(<<"E">> \o [i \in 1..Len(t) |-> Base64[t[i]]]), "nil">>

\* cookie.Cipher.Decrypt: (plaintext, err)
Decrypt(c, t) ==
    IF /\ Len(t) > 0 /\ Head(t) = "E"
       /\ \A i \in 2..Len(t) : \E b \in Chars : Base64[b] = t[i]
    THEN <<[i \in 1..(Len(t) - 1) |->
               CHOOSE b \in Chars : Base64[b] = t[i + 1]], "nil">>
    ELSE <<(<<>>), "decrypt error">>

\* encoding/json on a string: bytes that are not valid UTF-8 are replaced.
CoerceUTF8(t) == [i \in 1..Len(t) |-> IF t[i] = "x" THEN "?" ELSE t[i]]

ValidUTF8(t) == \A i \in 1..Len(t) : t[i] # "x"

\* time.Time as JSON text and back.
TimeDigits == <<"0", "1", "2", "3", "4", "5", "6", "7", "8", "9">>

FormatTime(t) == <<TimeDigits[t + 1]>>

ParseTime(x) == CHOOSE t \in 0..9 : TimeDigits[t + 1] = x[1]

\* json.Marshal(ss): the string fields are omitempty, ExpiresOn, a struct,
\* is always written.
Marshal(ss) ==
    [f \in {g \in StringFields : ss[g] # <<>>} \cup {"ExpiresOn"} |->
        IF f = "ExpiresOn" THEN FormatTime(ss[f]) ELSE CoerceUTF8(ss[f])]

\* json.Unmarshal([]byte(v), &s): a field not in the text keeps its zero.
Unmarshal(v) ==
    [f \in Fields |->
        IF f \notin DOMAIN v THEN ZeroSession[f]
        ELSE IF f = "ExpiresOn" THEN ParseTime(v[f])
        ELSE v[f]]

\* strings.Split(email, "@")[0]
LocalPart(email) ==
    LET ats == {i \in 1..Len(email) : email[i] = "@"}
    IN  IF ats = {} THEN email
        ELSE SubSeq(email, 1, (CHOOSE i \in ats : \A j \in ats : i <= j) - 1)

Sensitive == {"AccessToken", "IDToken", "RefreshToken"}

\* EncodeSessionState, lines 49-79: (string, err)
EncodeSessionState(s, c) ==
    IF c = NoCipher
    THEN <<Marshal([ZeroSession EXCEPT !.Email = s.Email, !.User = s.User]),
           "nil">>
    ELSE LET failed == {f \in Sensitive :
                           s[f] # <<>> /\ Encrypt(c, s[f])[2] # "nil"}
             ss == [f \in Fields |->
                      IF f \in Sensitive /\ s[f] # <<>>
                      THEN Encrypt(c, s[f])[1] ELSE s[f]]
         IN  IF failed # {} THEN <<Nil, "encrypt error">>
             ELSE <<Marshal(ss), "nil">>

\* Variant of DecodeSessionState: the sensitive fields are not decrypted.
DecodeSessionStateNoDecrypt(v, c) ==
    IF v = Nil THEN <<Nil, "unexpected end of JSON input">>
    ELSE LET s == Unmarshal(v)
             ss == IF c = NoCipher
                   THEN [ZeroSession EXCEPT !.Email = s.Email, !.User = s.User]
                   ELSE s
         IN  <<[ss EXCEPT !.User = IF @ = <<>> THEN LocalPart(ss.Email) ELSE @],
               "nil">>

\* DecodeSessionState, lines 82-118: (session, err)
DecodeSessionState(v, c) ==
    IF v = Nil THEN <<Nil, "unexpected end of JSON input">>
    ELSE LET s == Unmarshal(v)
             failed == {f \in Sensitive :
                           s[f] # <<>> /\ Decrypt(c, s[f])[2] # "nil"}
             ss == IF c = NoCipher
                   THEN [ZeroSession EXCEPT !.Email = s.Email, !.User = s.User]
                   ELSE [f \in Fields |->
                           IF f \in Sensitive /\ s[f] # <<>>
                           THEN Decrypt(c, s[f])[1] ELSE s[f]]
         IN  IF c # NoCipher /\ failed # {} THEN <<Nil, "decrypt error">>
             ELSE <<[ss EXCEPT !.User =
                               IF @ = <<>> THEN LocalPart(ss.Email) ELSE @],
                    "nil">>

----
\* No session is being encoded.
CodecIdle ==
    /\ given = Nil
    /\ cipher = NoCipher
    /\ encoded = Nil
    /\ encodeErr = "none"
    /\ decoded = Nil
    /\ decodeErr = "none"
    /\ cpc = "idle"

\* The requests have arrived and none has run yet; the lock is free.
RequestsArrived ==
    /\ lockHolder = 0
    /\ leaseExpired = FALSE
    /\ issued = 1
    /\ pc = [r \in Reqs |-> "loadSession"]
    /\ session = [r \in Reqs |-> Nil]
    /\ err = [r \in Reqs |-> "nil"]
    /\ lockErr = [r \in Reqs |-> "none"]
    /\ relocked = [r \in Reqs |-> Nil]
    /\ releaseErr = [r \in Reqs |-> "none"]
    /\ clearErr = [r \in Reqs |-> "none"]
    /\ attempts = [r \in Reqs |-> 0]
    /\ polledStale = [r \in Reqs |-> TRUE]
    /\ loaded = [r \in Reqs |-> Nil]
    /\ loadedDue = [r \in Reqs |-> FALSE]
    /\ loadedExpired = [r \in Reqs |-> FALSE]
    /\ scope0 \in [Reqs -> {Nil, Preloaded}]
    /\ scope = scope0
    /\ calls = [r \in Reqs |-> NoCalls]
    /\ nextCalls = [r \in Reqs |-> 0]

LoaderInit ==
    /\ now = 1
    /\ refreshPeriod \in {-1, 0, 1}
    /\ stored \in {Nil} \cup
            [AccessToken : {1}, CreatedAt : {ZeroTime, 1}, ExpiresOn : {ZeroTime, 1}]
    /\ needed \in SUBSET {1}
    /\ valid \in SUBSET {1}
    /\ RequestsArrived

Init == LoaderInit /\ CodecIdle

\* loadSession, lines 68-75: pass through when the scope has a session.
LoadSession(r) ==
    /\ pc[r] = "loadSession"
    /\ Continue(r, loadSessionEntry(scope[r]), scope[r])
    /\ UNCHANGED <<codec, env, store, session, err, atLock, clearErr, poll, atLoad,
                   calls>>

\* getValidatedSession: store.Load, then ensureSessionIsValid up to its
\* first call that takes time.
GetValidatedSession(r) ==
    /\ pc[r] = "getValidatedSession"
    /\ \E o \in LoadOutcomes :
         LET s == o[1]
             e == o[2]
             asked == e = "nil" /\ s # Nil /\ isRefreshPeriodOver(s)
         IN  /\ Continue(r, getValidatedSession(s, e), s)
             /\ session' = [session EXCEPT ![r] = s]
             /\ err' = [err EXCEPT ![r] = e]
             /\ loaded' = [loaded EXCEPT ![r] = s]
             /\ loadedDue' = [loadedDue EXCEPT ![r] =
                     s # Nil /\ refreshPeriod > 0 /\ Age(s) >= refreshPeriod]
             /\ loadedExpired' = [loadedExpired EXCEPT ![r] =
                     s # Nil /\ s.ExpiresOn # ZeroTime /\ s.ExpiresOn < now]
             /\ Called(r, {"Load"} \cup
                          (IF asked THEN {"IsRefreshSessionNeeded"} ELSE {}))
    /\ UNCHANGED <<codec, env, store, atLock, clearErr, poll, scope0>>

\* ensureSessionIsValid, lines 120-125: validateSession on the loaded session.
ValidateSession(r) ==
    /\ pc[r] = "validateSession"
    /\ LET e == validateSession(session[r])
       IN  /\ err' = [err EXCEPT ![r] = e]
           /\ session' = [session EXCEPT ![r] = IF e # "nil" THEN Nil ELSE @]
           /\ Continue(r, afterGetValidatedSession(e), session[r])
    /\ Called(r, IF IsExpired(session[r]) THEN {} ELSE {"ValidateSessionState"})
    /\ UNCHANGED <<codec, env, store, atLock, clearErr, poll, atLoad>>

\* getRefreshedSession, lines 129-141: store.LoadWithLock and the branch
\* on its result; at "RefreshSession" the provider call is in flight.
GetRefreshedSession(r) ==
    /\ pc[r] = "getRefreshedSession"
    /\ \E o \in LoadWithLockOutcomes(r) :
         LET s == o[1]
             e == o[2]
         IN  /\ lockHolder' = o[3]
             /\ lockErr' = [lockErr EXCEPT ![r] = e]
             /\ relocked' = [relocked EXCEPT ![r] = s]
             /\ Goto(r, getRefreshedSession(s, e))
             /\ session' = [session EXCEPT ![r] = s]
             /\ err' = [err EXCEPT ![r] =
                          IF getRefreshedSession(s, e) = "retry" THEN "nil" ELSE e]
             /\ Called(r, {"LoadWithLock"} \cup
                          (IF e = "nil" /\ s # Nil
                           THEN {"IsRefreshSessionNeeded"} ELSE {}))
    /\ UNCHANGED <<codec, env, stored, leaseExpired, releaseErr, clearErr, poll,
                   atLoad, scope, nextCalls>>

\* refreshSession, lines 183-186: the provider's RefreshSession returns; n
\* and v are the provider's later answers about the token it issued.
RefreshSession(r) ==
    /\ pc[r] = "RefreshSession"
    /\ \E o \in RefreshOutcomes(session[r]), n \in BOOLEAN, v \in BOOLEAN :
         LET s == o[1]
             e == IF o[2] = "nil" THEN "nil" ELSE "error refreshing access token"
             to == afterRefreshSessionWithProvider(o[2])
         IN  /\ IF o[2] = "nil"
                THEN /\ issued' = s.AccessToken
                     /\ needed' = IF n THEN needed \cup {s.AccessToken} ELSE needed
                     /\ valid' = IF v THEN valid \cup {s.AccessToken} ELSE valid
                ELSE /\ n /\ v
                     /\ UNCHANGED <<issued, needed, valid>>
             /\ session' = [session EXCEPT ![r] =
                               IF to = "Save" THEN s ELSE afterRefreshSession(s, e)]
             /\ err' = [err EXCEPT ![r] = e]
             /\ Goto(r, to)
    /\ Called(r, {"RefreshSession"})
    /\ UNCHANGED <<codec, now, refreshPeriod, store, atLock, clearErr, poll, atLoad,
                   scope, nextCalls>>

\* refreshSession, lines 193-198: store.Save of the refreshed session, and
\* the return of getRefreshedSession, lines 143-147.
Save(r) ==
    /\ pc[r] = "Save"
    /\ \E o \in SaveOutcomes(session[r]) :
         LET e == IF o[2] = "nil" THEN "nil" ELSE "error saving session"
         IN  /\ stored' = o[1]
             /\ err' = [err EXCEPT ![r] = e]
             /\ session' = [session EXCEPT ![r] = afterRefreshSession(@, e)]
    /\ Goto(r, "ReleaseLock")
    /\ Called(r, {"Save"})
    /\ UNCHANGED <<codec, env, lockHolder, leaseExpired, atLock, clearErr, poll,
                   atLoad, scope, nextCalls>>

\* retryLoadingValidSession: one pass of the loop, or its end.
RetryLoadingValidSession(r) ==
    /\ pc[r] = "retry"
    /\ IF retryLoopContinues(attempts[r])
       THEN \E o \in LoadOutcomes :
              LET s == o[1]
                  e == o[2]
                  due == e = "nil" /\ s # Nil /\ isRefreshPeriodOver(s)
              IN  /\ Called(r, {"Load"} \cup
                               (IF due THEN {"IsRefreshSessionNeeded"} ELSE {}))
                  /\ polledStale' = [polledStale EXCEPT ![r] =
                                       @ /\ due /\ IsRefreshSessionNeeded(s)]
                  /\ IF retryIteration(s, e) = "sleep"
                     THEN /\ attempts' = [attempts EXCEPT ![r] = @ + 1]
                          /\ UNCHANGED <<pc, session, err>>
                     ELSE /\ Goto(r, "ReleaseLock")
                          /\ session' = [session EXCEPT ![r] = s]
                          /\ err' = [err EXCEPT ![r] = e]
                          /\ UNCHANGED attempts
       ELSE /\ Goto(r, "ReleaseLock")
            /\ session' = [session EXCEPT ![r] = Nil]
            /\ err' = [err EXCEPT ![r] = "nil"]
            /\ UNCHANGED <<poll, calls>>
    /\ UNCHANGED <<codec, env, store, atLock, clearErr, atLoad, scope, nextCalls>>

\* getRefreshedSession, line 130: the deferred store.ReleaseLock, then the
\* return to loadSession, line 78.
ReleaseLock(r) ==
    /\ pc[r] = "ReleaseLock"
    /\ lockHolder' = ReleaseLockOutcome(r)
    /\ releaseErr' = [releaseErr EXCEPT ![r] = ReleaseLockError(r)]
    /\ Continue(r, afterGetValidatedSession(err[r]), session[r])
    /\ Called(r, {"ReleaseLock"})
    /\ UNCHANGED <<codec, env, stored, leaseExpired, session, err, lockErr, relocked,
                   clearErr, poll, atLoad>>

\* loadSession, lines 81-90: store.Clear, its own error only logged, then
\* the session goes into the scope and the next handler is called.
Clear(r) ==
    /\ pc[r] = "Clear"
    /\ \E o \in ClearOutcomes :
         /\ stored' = o[1]
         /\ clearErr' = [clearErr EXCEPT ![r] = o[2]]
         /\ Continue(r, afterClear(o[2]), session[r])
    /\ Called(r, {"Clear"})
    /\ UNCHANGED <<codec, env, lockHolder, leaseExpired, session, err, atLock, poll,
                   atLoad>>

\* Time passes.
Tick ==
    /\ now < MaxTime
    /\ now' = now + 1
    /\ UNCHANGED <<codec, refreshPeriod, needed, valid, issued, store, locals>>

\* Lock: a lease runs out before its holder released it.
LeaseExpire ==
    /\ lockHolder # 0
    /\ lockHolder' = 0
    /\ leaseExpired' = TRUE
    /\ UNCHANGED <<codec, env, stored, locals>>

Step(r) ==
    \/ LoadSession(r)
    \/ GetValidatedSession(r)
    \/ ValidateSession(r)
    \/ GetRefreshedSession(r)
    \/ RefreshSession(r)
    \/ Save(r)
    \/ RetryLoadingValidSession(r)
    \/ ReleaseLock(r)
    \/ Clear(r)

Next ==
    \/ \E r \in Reqs : Step(r)
    \/ Tick
    \/ LeaseExpire

Spec == Init /\ [][Next]_vars

----
\* The due test of the loader: requests of loaders with any refresh period
\* load a session of any age, up to the first call that takes time.

DueInit ==
    /\ CodecIdle
    /\ now \in 1..(MaxPeriod + 1)
    /\ refreshPeriod \in -1..MaxPeriod
    /\ stored \in {Nil} \cup
            {s \in [AccessToken : {1}, CreatedAt : 0..(MaxPeriod + 1),
                    ExpiresOn : {ZeroTime}] : s.CreatedAt <= now}
    /\ needed \in SUBSET {1}
    /\ valid = {1}
    /\ RequestsArrived

DueNext == \E r \in Reqs : LoadSession(r) \/ GetValidatedSession(r)

DueSpec == DueInit /\ [][DueNext]_vars

----
\* One session is encoded and the result decoded, with the same cipher.

\* Nothing is stored and no request is served meanwhile.
LoaderIdle ==
    /\ LoaderInit
    /\ refreshPeriod = 0
    /\ stored = Nil
    /\ needed = {}
    /\ valid = {}
    /\ scope0 = [r \in Reqs |-> Nil]

SessionStates ==
    [AccessToken : {<<>>, <<"x">>}, IDToken : {<<>>, <<"a">>},
     RefreshToken : {<<>>, <<"a">>}, ExpiresOn : Times,
     Email : Strings(MaxEmail), User : Strings(MaxUser)]

CodecInit ==
    /\ LoaderIdle
    /\ given \in SessionStates
    /\ cipher \in Ciphers
    /\ encoded = Nil
    /\ encodeErr = "none"
    /\ decoded = Nil
    /\ decodeErr = "none"
    /\ cpc = "encode"

\* s.EncodeSessionState(c)
Encode ==
    /\ cpc = "encode"
    /\ LET o == EncodeSessionState(given, cipher)
       IN  /\ encoded' = o[1]
           /\ encodeErr' = o[2]
    /\ cpc' = "decode"
    /\ UNCHANGED <<env, store, locals, given, cipher, decoded, decodeErr>>

\* DecodeSessionState(v, c) on what EncodeSessionState returned
Decode ==
    /\ cpc = "decode"
    /\ LET o == DecodeSessionState(encoded, cipher)
       IN  /\ decoded' = o[1]
           /\ decodeErr' = o[2]
    /\ cpc' = "done"
    /\ UNCHANGED <<env, store, locals, given, cipher, encoded, encodeErr>>

CodecNext == Encode \/ Decode

CodecSpec == CodecInit /\ [][CodecNext]_vars

\* Every request that has not finished takes its next step.
FairSpec == Spec /\ \A r \in Reqs : WF_vars(Step(r))

----
\* Properties of the loader.

RECURSIVE SumCalls(_, _)
\* The number of calls of op made by the requests of S.
SumCalls(op, S) ==
    IF S = {} THEN 0
    ELSE LET r == CHOOSE x \in S : TRUE
         IN  calls[r][op] + SumCalls(op, S \ {r})

\* getValidatedSession has returned to loadSession.
Returned(r) == pc[r] \in {"Clear", "done"}

\* The requests that went through getRefreshedSession.
Refreshers == {r \in Reqs : calls[r].LoadWithLock > 0}

\* C1 as stated: no two requests are at the same time between the start and
\* the end of the provider's RefreshSession call.
C1_NoTwoRefreshing ==
    \A r1, r2 \in Reqs :
        r1 # r2 => ~(pc[r1] = "RefreshSession" /\ pc[r2] = "RefreshSession")

\* C1, amended: a request inside the provider's RefreshSession call holds the
\* lock unless a lease has run out, and two requests are inside the call at
\* the same time only after a lease ran out before its holder released it.
C1_RefreshOnlyUnderLock ==
    /\ \A r \in Reqs :
         pc[r] = "RefreshSession" => (lockHolder = r \/ leaseExpired)
    /\ ~C1_NoTwoRefreshing => leaseExpired

C1_Witness ==
    \E r1, r2 \in Reqs :
        /\ r1 # r2
        /\ pc[r1] = "RefreshSession" /\ lockHolder = r1 /\ ~leaseExpired
        /\ pc[r2] = "retry" /\ attempts[r2] > 0

\* The setting of C2: every request has finished, at least two went through
\* getRefreshedSession (so each loaded the first session due and needing a
\* refresh), no store or provider call failed, no lease ran out, and the
\* provider asks for no refresh of the tokens it issued.
C2_Setting ==
    /\ \A r \in Reqs : pc[r] = "done" /\ err[r] = "nil"
    /\ Cardinality(Refreshers) >= 2
    /\ ~leaseExpired
    /\ needed \subseteq {1}

\* C2 as stated: RefreshSession is called exactly once and every caller
\* returns a session carrying the new access token.
C2_AllSeeRefreshed ==
    C2_Setting =>
        /\ SumCalls("RefreshSession", Reqs) = 1
        /\ issued > 1
        /\ \A r \in Refreshers : scope[r] # Nil /\ scope[r].AccessToken = issued

\* C2, amended: RefreshSession is called exactly once, the caller that made
\* the call returns the session with the new access token, and every other
\* caller returns either a session with that same token or, when its 10
\* polls all found the session still due and needing the refresh, no session.
C2_OneRefreshOthersReloadOrGiveUp ==
    C2_Setting =>
        /\ SumCalls("RefreshSession", Reqs) = 1
        /\ issued > 1
        /\ \A r \in Refreshers :
             \/ scope[r] # Nil /\ scope[r].AccessToken = issued
             \/ /\ scope[r] = Nil
                /\ calls[r].RefreshSession = 0
                /\ lockErr[r] = "ErrNotLockable"
                /\ polledStale[r]
                /\ attempts[r] = RetryBudget
        /\ \A r \in Refreshers :
             calls[r].RefreshSession = 1 =>
                 scope[r] # Nil /\ scope[r].AccessToken = issued

C2_Witness ==
    /\ C2_Setting
    /\ \E r1, r2 \in Refreshers :
         /\ calls[r1].RefreshSession = 1 /\ scope[r1] # Nil
         /\ lockErr[r2] = "ErrNotLockable"
         /\ scope[r2] # Nil /\ scope[r2].AccessToken = issued

\* C3: every call of getRefreshedSession calls store.ReleaseLock exactly
\* once, as its last step: never before it is about to return, and once by
\* the time it has returned, whatever the way out.
C3_ReleaseLockOncePerCall ==
    \A r \in Reqs :
        /\ calls[r].LoadWithLock <= 1
        /\ Returned(r) => calls[r].ReleaseLock = calls[r].LoadWithLock
        /\ ~Returned(r) => calls[r].ReleaseLock = 0

C3_Witness ==
    \E r1, r2 \in Reqs :
        /\ pc[r1] = "done" /\ lockErr[r1] = "ErrNotLockable"
        /\ calls[r1].ReleaseLock = 1
        /\ pc[r2] = "done" /\ err[r2] = "error saving session"
        /\ calls[r2].ReleaseLock = 1

\* C4: when LoadWithLock reports the lock not obtainable and every Load of
\* the poll finds the session due and needing a refresh, getRefreshedSession
\* returns (nil, nil) after exactly RetryBudget Loads of the poll (one more
\* Load was made before, by getValidatedSession), and neither RefreshSession
\* nor Save is called.
C4_GivesUpAfterBudget ==
    \A r \in Reqs :
        (lockErr[r] = "ErrNotLockable" /\ polledStale[r]
         /\ pc[r] \in {"ReleaseLock", "Clear", "done"})
        => /\ session[r] = Nil
           /\ err[r] = "nil"
           /\ calls[r].Load = 1 + RetryBudget
           /\ calls[r].RefreshSession = 0
           /\ calls[r].Save = 0

C4_Witness ==
    \E r \in Reqs :
        /\ lockErr[r] = "ErrNotLockable" /\ polledStale[r]
        /\ pc[r] = "done" /\ scope[r] = Nil
        /\ calls[r].Load = 1 + RetryBudget

\* C5: a request whose scope already carries a session makes no store call
\* and no provider call, keeps that session in its scope, and calls the
\* next handler.
C5_PassThrough ==
    \A r \in Reqs :
        scope0[r] # Nil =>
            /\ calls[r] = NoCalls
            /\ scope[r] = scope0[r]
            /\ pc[r] \in {"loadSession", "done"}
            /\ nextCalls[r] = IF pc[r] = "done" THEN 1 ELSE 0

C5_Witness ==
    \E r \in Reqs : scope0[r] # Nil /\ pc[r] = "done" /\ nextCalls[r] = 1

\* C6: when the scope is empty and the Load of getValidatedSession returns
\* an error, loadSession calls store.Clear exactly once, puts nil into the
\* scope and calls the next handler.
C6_LoadErrorClearsOnce ==
    \A r \in Reqs :
        (scope0[r] = Nil /\ pc[r] = "done" /\ err[r] = "store error"
         /\ calls[r].LoadWithLock = 0)
        => /\ calls[r].Load = 1
           /\ calls[r].Clear = 1
           /\ scope[r] = Nil
           /\ nextCalls[r] = 1

C6_Witness ==
    \E r \in Reqs :
        /\ scope0[r] = Nil /\ pc[r] = "done" /\ err[r] = "store error"
        /\ calls[r].LoadWithLock = 0 /\ calls[r].Clear = 1 /\ stored # Nil

\* C7: whatever the store and the provider answer, every request reaches
\* the next handler, the next handler has been called exactly once when
\* loadSession is over and not before, and a request whose
\* getValidatedSession returned an error has nil in its scope.
C7_NextHandlerRunsOnce ==
    /\ [](\A r \in Reqs :
            /\ nextCalls[r] = IF pc[r] = "done" THEN 1 ELSE 0
            /\ (pc[r] = "done" /\ err[r] # "nil") => scope[r] = Nil)
    /\ \A r \in Reqs : <>(pc[r] = "done")

C7_Witness ==
    \E r \in Reqs :
        /\ pc[r] = "done" /\ nextCalls[r] = 1
        /\ err[r] # "nil" /\ clearErr[r] = "store error" /\ scope[r] = Nil

\* C8: when no refresh period is configured (0), or the loaded session is
\* younger than a positive period, the loaded session goes into the scope
\* as it was loaded and the one Load is the request's only call of the
\* store or the provider.
C8_FastPath ==
    \A r \in Reqs :
        (loaded[r] # Nil
         /\ (refreshPeriod = 0 \/ (refreshPeriod > 0 /\ ~loadedDue[r])))
        => /\ pc[r] = "done"
           /\ err[r] = "nil"
           /\ scope[r] = loaded[r]
           /\ calls[r] = [NoCalls EXCEPT !.Load = 1]
           /\ nextCalls[r] = 1

C8_Witness ==
    \E r \in Reqs :
        /\ refreshPeriod = 0 /\ pc[r] = "done"
        /\ loaded[r] # Nil /\ scope[r] = loaded[r]
        /\ loaded[r].AccessToken \in needed /\ Age(loaded[r]) > 0

\* C9 as stated: with refresh disabled (RefreshPeriod = 0), a stored session
\* that is past its ExpiresOn when loaded is not put into the scope.
C9_ExpiredNotInstalled ==
    \A r \in Reqs :
        (refreshPeriod = 0 /\ scope0[r] = Nil /\ pc[r] = "done"
         /\ loadedExpired[r])
        => scope[r] = Nil

\* C10: when the loaded session is due, the provider reports no refresh
\* needed, the session is not expired and the provider validates it, that
\* session goes into the scope unchanged and neither LoadWithLock nor
\* RefreshSession nor Save is called.
C10_ValidationFallback ==
    \A r \in Reqs :
        (pc[r] = "done" /\ loaded[r] # Nil /\ loadedDue[r]
         /\ loaded[r].AccessToken \notin needed
         /\ ~IsExpired(loaded[r])
         /\ loaded[r].AccessToken \in valid)
        => /\ scope[r] = loaded[r]
           /\ err[r] = "nil"
           /\ calls[r] = [NoCalls EXCEPT !.Load = 1,
                                         !.IsRefreshSessionNeeded = 1,
                                         !.ValidateSessionState = 1]

C10_Witness ==
    \E r \in Reqs :
        /\ pc[r] = "done" /\ loaded[r] # Nil /\ loadedDue[r]
        /\ loaded[r].AccessToken \notin needed
        /\ calls[r].ValidateSessionState = 1
        /\ scope[r] = loaded[r]

\* C11: when the loaded session is due, the provider reports no refresh
\* needed, and the session is expired or the provider does not validate it,
\* ensureSessionIsValid returns an error and no session, loadSession calls
\* store.Clear exactly once and puts nil into the scope; a session found
\* expired is never passed to ValidateSessionState.
C11_ValidationFailureClears ==
    \A r \in Reqs :
        (loaded[r] # Nil /\ loadedDue[r]
         /\ loaded[r].AccessToken \notin needed
         /\ (loadedExpired[r] \/ loaded[r].AccessToken \notin valid)
         /\ Returned(r))
        => /\ session[r] = Nil
           /\ err[r] \in {"session is expired", "session is invalid"}
           /\ loadedExpired[r] => err[r] = "session is expired"
           /\ calls[r].ValidateSessionState =
                  IF err[r] = "session is expired" THEN 0 ELSE 1
           /\ calls[r].LoadWithLock = 0 /\ calls[r].RefreshSession = 0
           /\ calls[r].Save = 0
           /\ pc[r] = "Clear" => calls[r].Clear = 0
           /\ pc[r] = "done" => calls[r].Clear = 1 /\ scope[r] = Nil

C11_Witness ==
    \E r \in Reqs :
        /\ pc[r] = "done" /\ loaded[r] # Nil /\ loadedDue[r]
        /\ loaded[r].AccessToken \notin needed
        /\ loadedExpired[r] /\ loaded[r].AccessToken \in valid
        /\ err[r] = "session is expired"
        /\ calls[r].ValidateSessionState = 0 /\ calls[r].Clear = 1
        /\ scope[r] = Nil

\* C12: when LoadWithLock succeeded and the provider reports no refresh
\* needed for the session it reloaded, getRefreshedSession returns that
\* session unchanged, having asked the provider a second time, and the
\* request calls neither RefreshSession nor Save; so when every request
\* obtained the lock in its turn, no call failed, no lease ran out and the
\* provider asks for no refresh of the tokens it issued, RefreshSession is
\* called at most once in all.
C12_RecheckAfterLock ==
    /\ \A r \in Reqs :
         (lockErr[r] = "nil" /\ relocked[r] # Nil
          /\ relocked[r].AccessToken \notin needed)
         => /\ calls[r].RefreshSession = 0
            /\ calls[r].Save = 0
            /\ calls[r].IsRefreshSessionNeeded = 2
            /\ session[r] = relocked[r]
            /\ err[r] = "nil"
            /\ pc[r] \in {"ReleaseLock", "done"}
            /\ pc[r] = "done" => scope[r] = relocked[r]
    /\ (~leaseExpired /\ needed \subseteq {1}
        /\ \A r \in Reqs :
             lockErr[r] = "nil" /\ relocked[r] # Nil /\ err[r] = "nil")
       => SumCalls("RefreshSession", Reqs) <= 1

C12_Witness ==
    \E r1, r2 \in Reqs :
        /\ ~leaseExpired
        /\ lockErr[r1] = "nil" /\ calls[r1].RefreshSession = 1
        /\ calls[r1].Save = 1 /\ pc[r1] = "done" /\ scope[r1] # Nil
        /\ lockErr[r2] = "nil" /\ relocked[r2] = scope[r1]
        /\ relocked[r2].AccessToken \notin needed
        /\ pc[r2] = "done" /\ scope[r2] = relocked[r2]
        /\ calls[r2].RefreshSession = 0

\* C13: when the provider's RefreshSession returns an error, the request
\* does not call store.Save (while it still holds the lock and no other
\* request cleared the store, the stored session is the one it reloaded),
\* getRefreshedSession returns the error and no session, and loadSession
\* calls store.Clear once and puts nil into the scope.
C13_RefreshErrorClears ==
    \A r \in Reqs :
        err[r] = "error refreshing access token"
        => /\ calls[r].RefreshSession = 1
           /\ calls[r].Save = 0
           /\ session[r] = Nil
           /\ pc[r] \in {"ReleaseLock", "Clear", "done"}
           /\ (pc[r] = "ReleaseLock" /\ lockHolder = r /\ ~leaseExpired
               /\ SumCalls("Clear", Reqs) = 0) => stored = relocked[r]
           /\ calls[r].Clear = IF pc[r] = "done" THEN 1 ELSE 0
           /\ pc[r] = "done" => scope[r] = Nil

C13_Witness ==
    \E r \in Reqs :
        /\ err[r] = "error refreshing access token"
        /\ pc[r] = "done" /\ calls[r].Clear = 1 /\ clearErr[r] = "store error"
        /\ ~leaseExpired /\ SumCalls("Clear", Reqs) = 1
        /\ stored = relocked[r] /\ scope[r] = Nil

\* C14: the not-lockable condition of LoadWithLock never becomes the error
\* of the request; the only error after it is that of a failed Load of the
\* poll, and while every Load of the poll succeeded store.Clear is not
\* called: the request ends with what the poll returned in its scope, a
\* session or, the budget used up, nil.
C14_ContentionIsNoError ==
    \A r \in Reqs :
        lockErr[r] = "ErrNotLockable"
        => /\ err[r] \in {"nil", "store error"}
           /\ err[r] = "store error" => calls[r].Load >= 2 /\ session[r] = Nil
           /\ err[r] = "nil"
              => /\ calls[r].Clear = 0
                 /\ pc[r] \in {"retry", "ReleaseLock", "done"}
                 /\ pc[r] = "done"
                    => /\ scope[r] = session[r]
                       /\ nextCalls[r] = 1
                       /\ (scope[r] = Nil /\ stored # Nil
                           /\ SumCalls("Save", Reqs) = 0)
                          => attempts[r] = RetryBudget

C14_Witness ==
    \E r \in Reqs :
        /\ lockErr[r] = "ErrNotLockable" /\ err[r] = "nil"
        /\ pc[r] = "done" /\ calls[r].Clear = 0
        /\ attempts[r] > 0 /\ attempts[r] < RetryBudget
        /\ scope[r] # Nil /\ scope[r].AccessToken = issued /\ issued > 1

C16_RoundTripAsStated ==
    (cpc = "done" /\ encodeErr = "nil" /\ decodeErr = "nil")
    => /\ (cipher # NoCipher /\ \A f \in Sensitive : given[f] # <<>>)
          => decoded = given
       /\ cipher = NoCipher
          => decoded = [ZeroSession EXCEPT !.Email = given.Email,
                                           !.User = given.User]

\* C16, amended: when both calls succeed, with a cipher the three sensitive
\* fields and ExpiresOn come back as they were, with no cipher they come
\* back empty; in both cases Email comes back as it was when it is valid
\* UTF-8, and User comes back as it was when it is not empty and valid
\* UTF-8, and as the part of Email before the first "@" when it is empty.
C16_RoundTrip ==
    (cpc = "done" /\ encodeErr = "nil" /\ decodeErr = "nil")
    => /\ \A f \in Sensitive \cup {"ExpiresOn"} :
            decoded[f] = IF cipher # NoCipher THEN given[f] ELSE ZeroSession[f]
       /\ ValidUTF8(given.Email) => decoded.Email = given.Email
       /\ (given.User # <<>> /\ ValidUTF8(given.User))
          => decoded.User = given.User
       /\ (given.User = <<>> /\ ValidUTF8(given.Email))
          => decoded.User = LocalPart(given.Email)

C16_Witness ==
    /\ cpc = "done" /\ encodeErr = "nil" /\ decodeErr = "nil"
    /\ cipher # NoCipher
    /\ \A f \in Sensitive : given[f] # <<>> /\ encoded[f] # given[f]
    /\ given.ExpiresOn # ZeroTime
    /\ given.Email = <<"a", "@">> /\ given.User = <<"a">>
    /\ decoded = given

\* A session the poll has to wait on: due and reported in need of a refresh.
Stale(s) == s # Nil /\ isRefreshPeriodOver(s) /\ IsRefreshSessionNeeded(s)

\* C17: a pass of the poll's loop sleeps and goes round again only when its
\* Load returned a session that is due and reported in need of a refresh;
\* otherwise the poll returns at that pass, having made one Load per pass:
\* the error of the Load and no session, or what the Load returned, absent
\* or not, which is never a session due and in need of a refresh; with the
\* budget used up it returns (nil, nil).
C17_PollReturnsFirstUsable ==
    [][\A r \in Reqs :
         pc[r] = "retry" =>
            /\ attempts'[r] # attempts[r]
               => /\ attempts'[r] = attempts[r] + 1
                  /\ pc'[r] = "retry"
                  /\ Stale(stored)
                  /\ calls'[r].Load = calls[r].Load + 1
            /\ (pc'[r] # "retry" /\ attempts[r] < RetryBudget)
               => /\ pc'[r] = "ReleaseLock"
                  /\ calls'[r].Load = attempts[r] + 2
                  /\ \/ err'[r] = "store error" /\ session'[r] = Nil
                     \/ /\ err'[r] = "nil"
                        /\ session'[r] = stored
                        /\ ~Stale(stored)
            /\ (pc'[r] # "retry" /\ attempts[r] = RetryBudget)
               => /\ pc'[r] = "ReleaseLock"
                  /\ session'[r] = Nil /\ err'[r] = "nil"
                  /\ calls'[r].Load = calls[r].Load]_vars

C17_Witness ==
    \E r \in Reqs :
        /\ lockErr[r] = "ErrNotLockable" /\ pc[r] = "ReleaseLock"
        /\ attempts[r] > 0 /\ calls[r].Load = attempts[r] + 2
        /\ session[r] # Nil /\ session[r] = stored
        /\ isRefreshPeriodOver(session[r]) /\ ~IsRefreshSessionNeeded(session[r])

\* C18: an error of LoadWithLock other than the not-lockable condition is
\* not retried: the request makes no Load of the poll, no RefreshSession and
\* no Save, getRefreshedSession returns that error and no session, and
\* loadSession calls Clear once and puts nil into the scope.  An error of a
\* Load of the poll ends the poll at that pass, with one Load per pass made,
\* and goes the same way.
C18_StoreErrorsAreNotRetried ==
    \A r \in Reqs :
        /\ lockErr[r] = "store error"
           => /\ err[r] = "store error" /\ session[r] = Nil
              /\ calls[r].Load = 1 /\ attempts[r] = 0
              /\ calls[r].RefreshSession = 0 /\ calls[r].Save = 0
              /\ pc[r] \in {"ReleaseLock", "Clear", "done"}
        /\ (lockErr[r] = "ErrNotLockable" /\ err[r] = "store error")
           => /\ session[r] = Nil
              /\ attempts[r] < RetryBudget
              /\ calls[r].Load = attempts[r] + 2
              /\ calls[r].RefreshSession = 0 /\ calls[r].Save = 0
              /\ pc[r] \in {"ReleaseLock", "Clear", "done"}
        /\ (lockErr[r] \in {"store error", "ErrNotLockable"}
            /\ err[r] = "store error")
           => /\ calls[r].Clear = IF pc[r] = "done" THEN 1 ELSE 0
              /\ pc[r] = "done" => scope[r] = Nil /\ nextCalls[r] = 1

C18_Witness ==
    \E r \in Reqs :
        /\ lockErr[r] = "store error" /\ pc[r] = "done"
        /\ calls[r].Load = 1 /\ calls[r].LoadWithLock = 1
        /\ calls[r].Clear = 1 /\ scope[r] = Nil /\ stored # Nil

\* C19: when RefreshSession succeeded and the Save after it failed,
\* getRefreshedSession returns an error and no session: the refreshed
\* session, which the store does not hold, never reaches the scope;
\* loadSession calls Clear once and puts nil into the scope.
C19_SaveErrorClears ==
    \A r \in Reqs :
        err[r] = "error saving session"
        => /\ calls[r].RefreshSession = 1 /\ calls[r].Save = 1
           /\ issued > 1
           /\ session[r] = Nil
           /\ scope[r] = Nil
           /\ pc[r] \in {"ReleaseLock", "Clear", "done"}
           /\ calls[r].Clear = IF pc[r] = "done" THEN 1 ELSE 0
           /\ nextCalls[r] = IF pc[r] = "done" THEN 1 ELSE 0

C19_Witness ==
    \E r \in Reqs :
        /\ err[r] = "error saving session" /\ pc[r] = "done"
        /\ calls[r].Save = 1 /\ calls[r].Clear = 1 /\ clearErr[r] = "nil"
        /\ issued > 1 /\ scope[r] = Nil /\ stored = Nil

\* C20: the loader treats a loaded session as due (it asks the provider
\* whether a refresh is needed and goes on to the refresh or the validation)
\* exactly when RefreshPeriod > 0 and Age >= RefreshPeriod: a session whose
\* Age equals a positive RefreshPeriod is due, one whose Age is one less is
\* not and is installed as loaded, and with RefreshPeriod <= 0 none is due.
C20_DueAtPeriod ==
    \A r \in Reqs :
        loaded[r] # Nil =>
            LET age == Age(loaded[r])
                due == pc[r] \in {"getRefreshedSession", "validateSession"}
                notDue == pc[r] = "done" /\ scope[r] = loaded[r]
            IN  /\ due \/ notDue
                /\ due <=> (refreshPeriod > 0 /\ age >= refreshPeriod)
                /\ calls[r].IsRefreshSessionNeeded = IF due THEN 1 ELSE 0
                /\ (refreshPeriod > 0 /\ age = refreshPeriod) => due
                /\ age = refreshPeriod - 1 => notDue
                /\ refreshPeriod <= 0 => notDue
                /\ isRefreshPeriodOver(loaded[r]) = due

C20_Witness ==
    \E r \in Reqs :
        /\ loaded[r] # Nil /\ refreshPeriod = 2 /\ Age(loaded[r]) = 2
        /\ pc[r] = "validateSession" /\ calls[r].IsRefreshSessionNeeded = 1

\* C21 as stated: whenever loadSession puts into the scope a session that
\* is due at that moment and that the request did not refresh, the request
\* has run validateSession on it: it called ValidateSessionState, and the
\* session is neither expired nor rejected by the provider.
C21_UnrefreshedDueIsValidated ==
    [][\A r \in Reqs :
         (/\ pc[r] # "done" /\ pc'[r] = "done"
          /\ scope0[r] = Nil /\ scope'[r] # Nil
          /\ calls'[r].RefreshSession = 0
          /\ isRefreshPeriodOver(scope'[r]))
         => /\ calls'[r].ValidateSessionState = 1
            /\ ~IsExpired(scope'[r])
            /\ ValidateSessionState(scope'[r])]_vars

\* The request refreshed the session and saved it, and getRefreshedSession
\* has returned.
RefreshedAndReleased(r) ==
    /\ calls[r].Save = 1 /\ err[r] = "nil" /\ calls[r].ReleaseLock = 1

\* C22: a request calls RefreshSession only after its LoadWithLock obtained
\* the lock, Save only after RefreshSession, and ReleaseLock only after both:
\* a refresh that succeeded is saved before getRefreshedSession releases
\* the lock, and at the release the store holds the refreshed session
\* (unless a lease ran out or another request cleared the store).  So a
\* request that obtains the lock after that release never reloads the
\* session the refresh started from, and reloads the refreshed one when no
\* other request has written the store.
C22_SaveBeforeRelease ==
    /\ [](\A r \in Reqs :
            /\ pc[r] \in {"RefreshSession", "Save"}
               => /\ lockErr[r] = "nil" /\ calls[r].LoadWithLock = 1
                  /\ calls[r].ReleaseLock = 0
            /\ pc[r] = "Save"
               => calls[r].RefreshSession = 1 /\ calls[r].Save = 0
            /\ calls[r].Save <= calls[r].RefreshSession
            /\ calls[r].RefreshSession <= 1
            /\ (pc[r] \in {"ReleaseLock", "Clear", "done"}
                /\ calls[r].RefreshSession = 1 /\ err[r] = "nil")
               => /\ calls[r].Save = 1
                  /\ session[r] # Nil /\ session[r] # relocked[r]
            /\ (pc[r] = "ReleaseLock" /\ calls[r].Save = 1 /\ err[r] = "nil"
                /\ ~leaseExpired /\ SumCalls("Clear", Reqs) = 0)
               => lockHolder = r /\ stored = session[r])
    /\ [][\A r1, r2 \in Reqs :
            (/\ r1 # r2 /\ RefreshedAndReleased(r1)
             /\ pc[r2] = "getRefreshedSession" /\ lockErr'[r2] = "nil")
            => /\ relocked'[r2] # relocked[r1]
               /\ (SumCalls("Save", Reqs) = 1 /\ SumCalls("Clear", Reqs) = 0)
                  => relocked'[r2] = session[r1]]_vars

C22_Witness ==
    \E r1, r2 \in Reqs :
        /\ r1 # r2 /\ RefreshedAndReleased(r1) /\ ~leaseExpired
        /\ calls[r1].LoadWithLock = 1 /\ calls[r1].RefreshSession = 1
        /\ lockErr[r2] = "nil" /\ lockHolder = r2
        /\ relocked[r2] = session[r1] /\ relocked[r2] # relocked[r1]

\* C23: a request calls store.Save at most once, and only when its
\* LoadWithLock succeeded with a session and its RefreshSession returned
\* without error; a request that passed through, took the fast path or the
\* validation, polled, or met any other error calls no Save.  The stored
\* session changes only in a step that is a request's Save, which stores
\* the session it refreshed, or a request's Clear, which follows an error.
C23_OnlyRefreshSaves ==
    /\ [](\A r \in Reqs :
            /\ calls[r].Save <= 1 /\ calls[r].Clear <= 1
            /\ (calls[r].Save = 1 \/ pc[r] = "Save")
               => /\ lockErr[r] = "nil" /\ relocked[r] # Nil
                  /\ calls[r].LoadWithLock = 1
                  /\ calls[r].RefreshSession = 1
                  /\ err[r] \in {"nil", "error saving session"}
            /\ (\/ scope0[r] # Nil
                \/ lockErr[r] # "nil"
                \/ calls[r].RefreshSession = 0
                \/ err[r] \notin {"nil", "error saving session"})
               => calls[r].Save = 0 /\ pc[r] # "Save"
            /\ calls[r].Clear = 1 => err[r] # "nil")
    /\ [][stored' # stored
          => \E r \in Reqs :
                \/ /\ pc[r] = "Save" /\ pc'[r] # "Save"
                   /\ calls'[r].Save = calls[r].Save + 1
                   /\ stored' = session[r]
                \/ /\ pc[r] = "Clear" /\ pc'[r] # "Clear"
                   /\ calls'[r].Clear = calls[r].Clear + 1
                   /\ err[r] # "nil"
                   /\ stored' = Nil]_vars

C23_Witness ==
    \E r1, r2 \in Reqs :
        /\ pc[r1] = "done" /\ calls[r1].Save = 1 /\ err[r1] = "nil"
        /\ stored = scope[r1] /\ stored # relocked[r1]
        /\ pc[r2] = "done" /\ lockErr[r2] = "ErrNotLockable"
        /\ calls[r2].Save = 0 /\ calls[r2].Clear = 0
        /\ scope[r2] = stored

TypeOK ==
    /\ now \in Times
    /\ lockHolder \in {0} \cup Reqs
    /\ \A r \in Reqs : attempts[r] \in 0..RetryBudget

====
